---- MODULE Spec2Model ----
(***************************************************************************)
(* A model of the automated UI explorer (src/ui_explorer.py, class         *)
(* UIExplorer): element identity, snapshot parsing, the depth-bounded      *)
(* recursive exploration against a nondeterministic automation backend,    *)
(* and the generation of the replay script and the report.                 *)
(*                                                                         *)
(* Strings are sequences of one-character strings wherever the code works  *)
(* on characters (strip, slicing, prefixes); file-level content (script    *)
(* lines, screenshot names) is a sequence of string tokens.                *)
(***************************************************************************)
EXTENDS Integers, Sequences, FiniteSets, TLC

VARIABLES
    phase,             \* position of run_exploration: idle, exploring, summary, done,
                       \* regenerated
    max_depth,         \* the max_depth argument of the current run
    stack,             \* call stack of explore_screen, innermost frame last
    visited_elements,  \* self.visited_elements
    screen_states,     \* self.screen_states
    discovered_flows,  \* self.discovered_flows
    now,               \* the wall clock, in seconds
    calls,             \* the backend calls issued so far, in order
    generated,         \* what each generate_test_files call wrote, in order
    interrupted,       \* whether KeyboardInterrupt ended the exploration
    probe,             \* inputs and outputs of direct _create_identifier calls
    monitor            \* a PerformanceMonitor, its thread and main's position

vars == <<phase, max_depth, stack, visited_elements, screen_states,
          discovered_flows, now, calls, generated, interrupted, probe,
          monitor>>

(***************************************************************************)
(* Bounds of the model.                                                    *)
(***************************************************************************)
\* the largest max_depth a run is started with
MaxMaxDepth == 2
\* the longest displayText tried on _create_identifier
MaxTextLen == 2
\* the most seconds that pass before generate_test_files is called again
MaxDelay == 1

(***************************************************************************)
(* Strings.                                                                *)
(***************************************************************************)
\* the characters str.strip() removes
Whitespace == {" ", "\t", "\n"}

RECURSIVE lstrip(_)
lstrip(s) ==
    IF s # <<>> /\ Head(s) \in Whitespace THEN lstrip(Tail(s)) ELSE s

RECURSIVE rstrip(_)
rstrip(s) ==
    IF s # <<>> /\ s[Len(s)] \in Whitespace
    THEN rstrip(SubSeq(s, 1, Len(s) - 1))
    ELSE s

\* str.strip()
strip(s) == rstrip(lstrip(s))

\* s[:n]
Slice(s, n) == SubSeq(s, 1, IF Len(s) < n THEN Len(s) ELSE n)

\* s.replace(old, new) for single characters
Replace(s, old, new) == [i \in 1..Len(s) |-> IF s[i] = old THEN new ELSE s[i]]

\* sequences over S of length at most n
SeqUpTo(S, n) == UNION {[1..k -> S] : k \in 0..n}

(***************************************************************************)
(* Elements and their identity.                                            *)
(***************************************************************************)
\* attrs.get(key, '') of a node: an absent attribute reads as ''
Attr(c, t, a, r, b) ==
    [clickable |-> c, text |-> t, accessibilityText |-> a,
     resource_id |-> r, bounds |-> b, class |-> <<"View">>]

TextPrefix == <<"t", "e", "x", "t", ":">>
AccPrefix == <<"a", "c", "c", ":">>
IdPrefix == <<"i", "d", ":">>
BoundsPrefix == <<"b", "o", "u", "n", "d", "s", ":">>

\* a plausible slip: the labels are not stripped before they are tested
create_identifier_unstripped(element) ==
    IF element.text # <<>> THEN TextPrefix \o element.text
    ELSE IF element.accessibilityText # <<>>
         THEN AccPrefix \o element.accessibilityText
    ELSE IF element.resource_id # <<>> THEN IdPrefix \o element.resource_id
    ELSE BoundsPrefix \o element.bounds

\* a plausible slip: the accessibility label is tried before the text
create_identifier_acc_first(element) ==
    LET text == strip(element.text)
        acc_text == strip(element.accessibilityText)
        resource_id == strip(element.resource_id)
    IN  IF acc_text # <<>> THEN AccPrefix \o acc_text
        ELSE IF text # <<>> THEN TextPrefix \o text
        ELSE IF resource_id # <<>> THEN IdPrefix \o resource_id
        ELSE BoundsPrefix \o element.bounds

\* UIExplorer._create_identifier
create_identifier(element) ==
    LET text == strip(element.text)
        acc_text == strip(element.accessibilityText)
        resource_id == strip(element.resource_id)
        bounds == element.bounds
    IN  IF text # <<>> THEN TextPrefix \o text
        ELSE IF acc_text # <<>> THEN AccPrefix \o acc_text
        ELSE IF resource_id # <<>> THEN IdPrefix \o resource_id
        ELSE BoundsPrefix \o bounds

\* element_info of find_clickable_elements, with its identifier
ElementInfo(attrs, path) ==
    LET info == [text |-> attrs.text,
                 accessibilityText |-> attrs.accessibilityText,
                 resource_id |-> attrs.resource_id,
                 bounds |-> attrs.bounds,
                 class |-> attrs.class,
                 path |-> path]
    IN  [text |-> info.text,
         accessibilityText |-> info.accessibilityText,
         resource_id |-> info.resource_id,
         bounds |-> info.bounds,
         class |-> info.class,
         path |-> info.path,
         identifier |-> create_identifier(info)]

(***************************************************************************)
(* Snapshots: dict nodes with attributes and children, and list nodes.     *)
(***************************************************************************)
NoAttrs == Attr(<<>>, <<>>, <<>>, <<>>, <<>>)
DictNode(attrs, children) ==
    [kind |-> "dict", attributes |-> attrs, children |-> children]
ListNode(items) ==
    [kind |-> "list", attributes |-> NoAttrs, children |-> items]

True == <<"t", "r", "u", "e">>
False == <<"f", "a", "l", "s", "e">>

\* a plausible slip: any non-empty `clickable` value counts
is_clickable_truthy(attrs) == attrs.clickable # <<>>

\* traverse: attrs.get('clickable') == 'true'
is_clickable(attrs) == attrs.clickable = True

RECURSIVE traverse(_, _)
RECURSIVE traverse_each(_, _, _, _)

\* the loops over node['children'] and over the items of a list node
traverse_each(nodes, path, segment, i) ==
    IF i > Len(nodes) THEN <<>>
    ELSE traverse(nodes[i], path \o <<segment, ToString(i - 1), "]">>)
         \o traverse_each(nodes, path, segment, i + 1)

\* a plausible slip: a node is looked at after its children
traverse_postorder(node, path) ==
    IF node.kind = "dict"
    THEN LET attrs == node.attributes
             element_info == ElementInfo(attrs, path)
             own == IF is_clickable(attrs)
                       /\ element_info.identifier \notin visited_elements
                    THEN <<element_info>> ELSE <<>>
         IN  traverse_each(node.children, path, "/child[", 1) \o own
    ELSE IF node.kind = "list"
         THEN traverse_each(node.children, path, "/item[", 1)
    ELSE <<>>

\* traverse of find_clickable_elements: the candidates below node, pre-order
traverse(node, path) ==
    IF node.kind = "dict"
    THEN LET attrs == node.attributes
             element_info == ElementInfo(attrs, path)
             own == IF is_clickable(attrs)
                       /\ element_info.identifier \notin visited_elements
                    THEN <<element_info>> ELSE <<>>
         IN  own \o traverse_each(node.children, path, "/child[", 1)
    ELSE IF node.kind = "list"
         THEN traverse_each(node.children, path, "/item[", 1)
    ELSE <<>>

\* get_hierarchy returned None
None == [kind |-> "none", attributes |-> NoAttrs, children |-> <<>>]

\* UIExplorer.find_clickable_elements
find_clickable_elements(hierarchy) ==
    IF hierarchy = None THEN <<>> ELSE traverse(hierarchy, <<>>)

\* what tap_element writes into its flow file; <<>> when it has no locator
yaml_cmd(element) ==
    IF element.text # <<>>
    THEN <<<<"- ", "tapOn: \"">> \o element.text \o <<"\"">>>>
    ELSE IF element.accessibilityText # <<>>
    THEN <<<<"- ", "tapOn: \"">> \o element.accessibilityText \o <<"\"">>>>
    ELSE IF element.resource_id # <<>>
    THEN <<<<"- ", "tapOn:">>, <<"    id: ">> \o element.resource_id>>
    ELSE IF element.bounds # <<>>
    THEN <<<<"- ", "tapOn:">>, <<"    point: \"50%,50%\"">>>>
    ELSE <<>>

(***************************************************************************)
(* The application under test, as the backend reports it: the attribute    *)
(* maps a node may carry, and the snapshots `maestro hierarchy` may show.  *)
(***************************************************************************)
\* the leaves the application shows
LabelA == DictNode(Attr(True, <<"a">>, <<>>, <<>>, <<"[0,0]">>), <<>>)
LabelAPadded == DictNode(Attr(True, <<" ", "a">>, <<"c">>, <<>>, <<"[1,1]">>), <<>>)
BlankTextAccB == DictNode(Attr(True, <<" ">>, <<"b">>, <<>>, <<>>), <<>>)
IdR == DictNode(Attr(True, <<>>, <<>>, <<"r">>, <<>>), <<>>)
Unlabelled == DictNode(Attr(True, <<>>, <<>>, <<>>, <<>>), <<>>)
BoundsOnly == DictNode(Attr(True, <<>>, <<>>, <<>>, <<"[2,2]">>), <<>>)
Passive == DictNode(Attr(False, <<"z">>, <<>>, <<>>, <<>>), <<>>)

Hierarchies ==
    { DictNode(NoAttrs, <<Passive>>),
      DictNode(NoAttrs, <<LabelA, BlankTextAccB, IdR>>),
      DictNode(NoAttrs, <<LabelA, LabelAPadded, Unlabelled>>),
      DictNode(NoAttrs, <<IdR, LabelA>>),
      DictNode(NoAttrs,
               <<ListNode(<<DictNode(Attr(False, <<>>, <<>>, <<>>, <<>>),
                                     <<BoundsOnly>>)>>)>>) }

\* the max_depth values a run is started with (argparse takes any int)
MaxDepths == {-1} \cup 0..MaxMaxDepth

\* what go_back may meet: the back flow ran (its exit code is not read), or
\* running it raised (a timeout included)
BackResults == {"ok", "error"}

(***************************************************************************)
(* Screenshot names.                                                       *)
(***************************************************************************)
\* the identifier prefix kept in a post-tap screenshot name
AfterNameLen == 30

\* f"screen_depth{depth}_{int(time.time())}"
ScreenshotName(depth, t) == <<"screen_depth", ToString(depth), "_", ToString(t)>>

\* f"after_tap_{identifier.replace(':', '_')[:30]}_{int(time.time())}"
AfterScreenshot(identifier, t) ==
    <<"after_tap_">> \o Slice(Replace(identifier, ":", "_"), AfterNameLen)
    \o <<"_", ToString(t)>>

(***************************************************************************)
(* generate_test_files: the replay script and the report.                  *)
(***************************************************************************)
app_id == <<"com.whisker.android">>
\* self.screenshots_dir, named in __init__ after the time of construction
screenshots_dir == <<"ui_exploration_", "0">>

RECURSIVE screen_keys(_, _)
\* the keys of flows_by_screen, in insertion order
screen_keys(flows, seen) ==
    IF flows = <<>> THEN <<>>
    ELSE IF Head(flows).from_screen \in seen
         THEN screen_keys(Tail(flows), seen)
    ELSE <<Head(flows).from_screen>>
         \o screen_keys(Tail(flows), seen \cup {Head(flows).from_screen})

\* a plausible slip: the flows of a screen are written newest first
flows_by_screen_reversed(flows, screen) ==
    LET mine == SelectSeq(flows, LAMBDA flow : flow.from_screen = screen)
    IN  [i \in 1..Len(mine) |-> mine[Len(mine) + 1 - i]]

\* flows_by_screen[screen]
flows_by_screen(flows, screen) ==
    SelectSeq(flows, LAMBDA flow : flow.from_screen = screen)

\* the activation step written for a flow (no step for a bounds-only element)
tap_lines(element) ==
    IF element.text # <<>>
    THEN <<<<"- ", "tapOn: \"">> \o element.text \o <<"\"">>>>
    ELSE IF element.accessibilityText # <<>>
    THEN <<<<"- ", "tapOn: \"">> \o element.accessibilityText \o <<"\"">>>>
    ELSE IF element.resource_id # <<>>
    THEN <<<<"- ", "tapOn:">>, <<"    id: ">> \o element.resource_id>>
    ELSE <<>>

\* the lines written for one flow record
flow_lines(flow) ==
    <<<<"# ", "Test: ">> \o flow.action>>
    \o tap_lines(flow.element)
    \o << <<"- ", "waitForAnimationToEnd">>,
          <<"- ", "takeScreenshot: \"">> \o flow.to_screen \o <<"\"">>,
          <<"- ", "back">>,
          <<"- ", "waitForAnimationToEnd">>,
          <<>> >>

RECURSIVE lines_of_flows(_)
lines_of_flows(flows) ==
    IF flows = <<>> THEN <<>>
    ELSE flow_lines(Head(flows)) \o lines_of_flows(Tail(flows))

\* the section written for one origin screen
section_lines(flows, screen) ==
    LET mine == flows_by_screen(flows, screen)
    IN  << <<>>,
           <<"# ", "Screen: ">> \o screen,
           <<"# ", "Discovered ", ToString(Len(mine)), " interactions">>,
           <<>> >>
        \o lines_of_flows(mine)

RECURSIVE lines_of_sections(_, _)
lines_of_sections(flows, screens) ==
    IF screens = <<>> THEN <<>>
    ELSE section_lines(flows, Head(screens))
         \o lines_of_sections(flows, Tail(screens))

\* the head of the script, written whatever the logs hold
header_lines(t) ==
    << <<"appId: ">> \o app_id,
       <<"---">>,
       <<"# ", "Auto-generated UI Exploration Tests">>,
       <<"# ", "Generated: ", ToString(t)>>,
       <<"# ", "Total screens explored: ", ToString(Len(screen_states))>>,
       <<"# ", "Total interactions discovered: ",
         ToString(Len(discovered_flows))>>,
       <<>>,
       <<"- ", "waitForAnimationToEnd">>,
       <<"- ", "takeScreenshot: \"exploration_start\"">>,
       <<>> >>

\* test_content of generate_test_files, called at time t
test_content(t) ==
    header_lines(t)
    \o lines_of_sections(discovered_flows, screen_keys(discovered_flows, {}))

RECURSIVE list(_)
\* list(a_set): every member once, in the iteration order of the set, which
\* is one fixed order for a set that is not changed in between
list(S) ==
    IF S = {} THEN <<>>
    ELSE LET first == CHOOSE x \in S : TRUE
         IN  <<first>> \o list(S \ {first})

\* a plausible slip: the interactions are counted from the visited
\* identifiers, not from the flow log
report_counts_visited(t) ==
    [timestamp |-> t,
     total_screens |-> Len(screen_states),
     total_interactions |-> Cardinality(visited_elements),
     visited_elements |-> list(visited_elements),
     flows |-> discovered_flows,
     screenshots_dir |-> screenshots_dir]

\* a plausible slip: the screenshot directory is named afresh on every call
report_fresh_dir(t) ==
    [timestamp |-> t,
     total_screens |-> Len(screen_states),
     total_interactions |-> Len(discovered_flows),
     visited_elements |-> list(visited_elements),
     flows |-> discovered_flows,
     screenshots_dir |-> <<"ui_exploration_", ToString(t)>>]

\* report of generate_test_files, called at time t
report(t) ==
    [timestamp |-> t,
     total_screens |-> Len(screen_states),
     total_interactions |-> Len(discovered_flows),
     visited_elements |-> list(visited_elements),
     flows |-> discovered_flows,
     screenshots_dir |-> screenshots_dir]

\* what one generate_test_files call writes
generate_test_files(t) == [test_content |-> test_content(t), report |-> report(t)]

(***************************************************************************)
(* The run: run_exploration, the recursive explore_screen, the backend.    *)
(***************************************************************************)
\* time.sleep(2) after a successful tap
SettleSeconds == 2
\* time.sleep(1) inside go_back, skipped when the back flow raised
BackSeconds == 1
\* time.sleep(1) after go_back
AfterBackSeconds == 1

\* before main of run_monitored_test builds its PerformanceMonitor
NoMonitor == [main |-> "absent"]

\* the values of the direct-call inputs while none is made
NoElement ==
    [text |-> <<>>, accessibilityText |-> <<>>, resource_id |-> <<>>,
     bounds |-> <<>>, class |-> <<>>, path |-> <<>>]
ProbeIdle ==
    [stage |-> "idle", e1 |-> NoElement, e2 |-> NoElement,
     id1 |-> <<>>, id2 |-> <<>>]

\* UIExplorer.__init__
Init ==
    /\ phase = "idle"
    /\ max_depth = 0
    /\ stack = <<>>
    /\ visited_elements = {}
    /\ screen_states = <<>>
    /\ discovered_flows = <<>>
    /\ now = 0
    /\ calls = <<>>
    /\ generated = <<>>
    /\ interrupted = FALSE
    /\ probe = ProbeIdle
    /\ monitor = NoMonitor

\* an activation of explore_screen(depth, max_depth), before its first line
Frame(depth) ==
    [depth |-> depth, pc |-> "enter", screenshot_name |-> <<>>,
     clickable |-> <<>>, i |-> 1]

Top == stack[Len(stack)]
SetTop(frame) == [stack EXCEPT ![Len(stack)] = frame]
Pop == SubSeq(stack, 1, Len(stack) - 1)

\* one backend call, as the log keeps it: the operation, the depth of the
\* explore_screen activation issuing it, the identifier tapped or the
\* screenshot name, the outcome, and the snapshot a hierarchy call returned
Call(op, depth, what, result, snapshot) ==
    [op |-> op, depth |-> depth, what |-> what, result |-> result,
     snapshot |-> snapshot]

\* explore_screen returns: to its caller's loop, or to run_exploration
Return ==
    /\ stack' = Pop
    /\ phase' = IF Len(stack) = 1 THEN "summary" ELSE "exploring"

\* run_exploration(max_depth=k) up to its call of explore_screen(0, k)
RunExploration(k) ==
    /\ phase = "idle"
    /\ phase' = "exploring"
    /\ max_depth' = k
    /\ stack' = <<Frame(0)>>
    /\ UNCHANGED <<visited_elements, screen_states, discovered_flows, now,
                   calls, generated, interrupted, probe, monitor>>

\* a plausible slip: the depth guard is missing
TooDeepNever(depth) == FALSE

\* explore_screen: `depth > max_depth`
TooDeep(depth) == depth > max_depth

\* a plausible slip: an identifier is tapped whether or not it was visited
UnvisitedAlways(identifier) == TRUE

\* the element loop: not `identifier in self.visited_elements`
Unvisited(identifier) == identifier \notin visited_elements

\* explore_screen: `if depth > max_depth: return`
ExploreTooDeep ==
    /\ phase = "exploring"
    /\ Top.pc = "enter"
    /\ TooDeep(Top.depth)
    /\ Return
    /\ UNCHANGED <<max_depth, visited_elements, screen_states,
                   discovered_flows, now, calls, generated, interrupted, probe,
                   monitor>>

\* a plausible slip: the `return` after a failed get_hierarchy is missing
HierarchyFailsFallsThrough ==
    /\ phase = "exploring"
    /\ Top.pc = "enter"
    /\ ~TooDeep(Top.depth)
    /\ LET screenshot_name == ScreenshotName(Top.depth, now)
       IN  /\ calls' = calls
                  \o << Call("hierarchy", Top.depth, <<>>, "failed", None),
                        Call("screenshot", Top.depth, screenshot_name, "ok", None) >>
           /\ screen_states' =
                  Append(screen_states,
                         [depth |-> Top.depth, timestamp |-> now,
                          screenshot |-> screenshot_name, elements |-> <<>>])
           /\ stack' = SetTop([Top EXCEPT !.pc = "loop",
                                          !.screenshot_name = screenshot_name])
    /\ UNCHANGED <<phase, max_depth, visited_elements, discovered_flows, now,
                   generated, interrupted, probe, monitor>>

\* a plausible slip: get_hierarchy lets its error escape, which ends
\* run_exploration before the summary
HierarchyFailsAborts ==
    /\ phase = "exploring"
    /\ Top.pc = "enter"
    /\ ~TooDeep(Top.depth)
    /\ calls' = Append(calls, Call("hierarchy", Top.depth, <<>>, "failed", None))
    /\ stack' = <<>>
    /\ phase' = "done"
    /\ UNCHANGED <<max_depth, visited_elements, screen_states,
                   discovered_flows, now, generated, interrupted, probe,
                   monitor>>

\* explore_screen: get_hierarchy gave nothing, `if not hierarchy: return`
HierarchyFails ==
    /\ phase = "exploring"
    /\ Top.pc = "enter"
    /\ ~TooDeep(Top.depth)
    /\ calls' = Append(calls, Call("hierarchy", Top.depth, <<>>, "failed", None))
    /\ Return
    /\ UNCHANGED <<max_depth, visited_elements, screen_states,
                   discovered_flows, now, generated, interrupted, probe,
                   monitor>>

\* explore_screen from get_hierarchy to the head of the element loop
ObserveScreen(hierarchy) ==
    /\ phase = "exploring"
    /\ Top.pc = "enter"
    /\ ~TooDeep(Top.depth)
    /\ LET depth == Top.depth
           screenshot_name == ScreenshotName(depth, now)
           clickable == find_clickable_elements(hierarchy)
           screen_state == [depth |-> depth, timestamp |-> now,
                            screenshot |-> screenshot_name,
                            elements |-> clickable]
       IN  /\ calls' = calls
                  \o << Call("hierarchy", depth, <<>>, "ok", hierarchy),
                        Call("screenshot", depth, screenshot_name, "ok", None) >>
           /\ screen_states' = Append(screen_states, screen_state)
           /\ stack' = SetTop([Top EXCEPT !.pc = "loop",
                                          !.screenshot_name = screenshot_name,
                                          !.clickable = clickable,
                                          !.i = 1])
    /\ UNCHANGED <<phase, max_depth, visited_elements, discovered_flows, now,
                   generated, interrupted, probe, monitor>>

\* a plausible slip: a loop that steps by hand and does not step over a
\* visited element
SkipVisitedStuck ==
    /\ phase = "exploring"
    /\ Top.pc = "loop"
    /\ Top.i <= Len(Top.clickable)
    /\ ~Unvisited(Top.clickable[Top.i].identifier)
    /\ UNCHANGED vars

\* the element loop: `if identifier in self.visited_elements: continue`
SkipVisited ==
    /\ phase = "exploring"
    /\ Top.pc = "loop"
    /\ Top.i <= Len(Top.clickable)
    /\ ~Unvisited(Top.clickable[Top.i].identifier)
    /\ stack' = SetTop([Top EXCEPT !.i = Top.i + 1])
    /\ UNCHANGED <<phase, max_depth, visited_elements, screen_states,
                   discovered_flows, now, calls, generated, interrupted, probe,
                   monitor>>

\* what tap_element may meet for an element: no locator and no backend call
\* ("none"), or a flow run that exits 0 ("ok") or does not: a non-zero exit
\* code, a timeout or another exception, all returned as False ("failed")
TapResults(element) ==
    IF yaml_cmd(element) = <<>> THEN {"none"} ELSE {"ok", "failed"}

\* a plausible slip: an identifier is marked visited only once its tap worked
TapFailsUnmarked(result) ==
    /\ phase = "exploring"
    /\ Top.pc = "loop"
    /\ Top.i <= Len(Top.clickable)
    /\ LET element == Top.clickable[Top.i]
           identifier == element.identifier
       IN  /\ Unvisited(identifier)
           /\ result \in TapResults(element) \ {"ok"}
           /\ calls' = Append(calls, Call("tap", Top.depth, identifier, result, None))
    /\ stack' = SetTop([Top EXCEPT !.i = Top.i + 1])
    /\ UNCHANGED <<phase, max_depth, visited_elements, screen_states,
                   discovered_flows, now, generated, interrupted, probe,
                   monitor>>

\* a plausible slip: the recursive call and go_back sit outside
\* `if success:`, so a failed tap descends as well
TapFailsDescends(result) ==
    /\ phase = "exploring"
    /\ Top.pc = "loop"
    /\ Top.i <= Len(Top.clickable)
    /\ LET element == Top.clickable[Top.i]
           identifier == element.identifier
           waiting == SetTop([Top EXCEPT !.pc = "back"])
       IN  /\ Unvisited(identifier)
           /\ result \in TapResults(element) \ {"ok"}
           /\ visited_elements' = visited_elements \cup {identifier}
           /\ calls' = Append(calls, Call("tap", Top.depth, identifier, result, None))
           /\ stack' = IF Top.depth < max_depth
                       THEN Append(waiting, Frame(Top.depth + 1))
                       ELSE waiting
    /\ UNCHANGED <<phase, max_depth, screen_states, discovered_flows, now,
                   generated, interrupted, probe, monitor>>

\* the element loop: mark visited, tap_element returns False
TapFails(result) ==
    /\ phase = "exploring"
    /\ Top.pc = "loop"
    /\ Top.i <= Len(Top.clickable)
    /\ LET element == Top.clickable[Top.i]
           identifier == element.identifier
       IN  /\ Unvisited(identifier)
           /\ result \in TapResults(element) \ {"ok"}
           /\ visited_elements' = visited_elements \cup {identifier}
           /\ calls' = Append(calls, Call("tap", Top.depth, identifier, result, None))
    /\ stack' = SetTop([Top EXCEPT !.i = Top.i + 1])
    /\ UNCHANGED <<phase, max_depth, screen_states, discovered_flows, now,
                   generated, interrupted, probe, monitor>>

\* a plausible slip: the recursion guard is off by one
DescendsOffByOne(depth) == depth <= max_depth

\* the element loop: `if depth < max_depth` before the recursive call
Descends(depth) == depth < max_depth

\* a plausible slip: the flow's from_screen is read off the last logged
\* ScreenState instead of this activation's own screenshot_name
TapSucceedsStaleScreen ==
    /\ phase = "exploring"
    /\ Top.pc = "loop"
    /\ Top.i <= Len(Top.clickable)
    /\ LET element == Top.clickable[Top.i]
           identifier == element.identifier
           depth == Top.depth
           after_screenshot == AfterScreenshot(identifier, now + SettleSeconds)
           flow_record == [from_screen |->
                               screen_states[Len(screen_states)].screenshot,
                           action |-> identifier,
                           to_screen |-> after_screenshot,
                           depth |-> depth,
                           element |-> element]
           waiting == SetTop([Top EXCEPT !.pc = "back"])
       IN  /\ Unvisited(identifier)
           /\ "ok" \in TapResults(element)
           /\ visited_elements' = visited_elements \cup {identifier}
           /\ now' = now + SettleSeconds
           /\ calls' = calls
                  \o << Call("tap", depth, identifier, "ok", None),
                        Call("screenshot", depth, after_screenshot, "ok", None) >>
           /\ discovered_flows' = Append(discovered_flows, flow_record)
           /\ stack' = IF Descends(depth)
                       THEN Append(waiting, Frame(depth + 1))
                       ELSE waiting
    /\ UNCHANGED <<phase, max_depth, screen_states, generated, interrupted,
                   probe, monitor>>

\* the element loop: mark visited, tap_element returns True, settle, take the
\* follow-up screenshot, record the flow, and call explore_screen(depth + 1)
TapSucceeds ==
    /\ phase = "exploring"
    /\ Top.pc = "loop"
    /\ Top.i <= Len(Top.clickable)
    /\ LET element == Top.clickable[Top.i]
           identifier == element.identifier
           depth == Top.depth
           after_screenshot == AfterScreenshot(identifier, now + SettleSeconds)
           flow_record == [from_screen |-> Top.screenshot_name,
                           action |-> identifier,
                           to_screen |-> after_screenshot,
                           depth |-> depth,
                           element |-> element]
           waiting == SetTop([Top EXCEPT !.pc = "back"])
       IN  /\ Unvisited(identifier)
           /\ "ok" \in TapResults(element)
           /\ visited_elements' = visited_elements \cup {identifier}
           /\ now' = now + SettleSeconds
           /\ calls' = calls
                  \o << Call("tap", depth, identifier, "ok", None),
                        Call("screenshot", depth, after_screenshot, "ok", None) >>
           /\ discovered_flows' = Append(discovered_flows, flow_record)
           /\ stack' = IF Descends(depth)
                       THEN Append(waiting, Frame(depth + 1))
                       ELSE waiting
    /\ UNCHANGED <<phase, max_depth, screen_states, generated, interrupted,
                   probe, monitor>>

\* a plausible slip: the loop moves on without calling go_back
GoBackSkipped(result) ==
    /\ phase = "exploring"
    /\ Top.pc = "back"
    /\ result \in BackResults
    /\ now' = now + AfterBackSeconds
    /\ stack' = SetTop([Top EXCEPT !.pc = "loop", !.i = Top.i + 1])
    /\ UNCHANGED <<phase, max_depth, visited_elements, screen_states,
                   discovered_flows, calls, generated, interrupted, probe,
                   monitor>>

\* a plausible slip: a flow whose back failed is taken out of the log again
GoBackRollsBack(result) ==
    /\ phase = "exploring"
    /\ Top.pc = "back"
    /\ calls' = Append(calls, Call("back", Top.depth, <<>>, result, None))
    /\ now' = now + (IF result = "error" THEN 0 ELSE BackSeconds)
                  + AfterBackSeconds
    /\ discovered_flows' =
          IF result = "error"
          THEN SelectSeq(discovered_flows,
                         LAMBDA flow : flow.action # Top.clickable[Top.i].identifier)
          ELSE discovered_flows
    /\ stack' = SetTop([Top EXCEPT !.pc = "loop", !.i = Top.i + 1])
    /\ UNCHANGED <<phase, max_depth, visited_elements, screen_states,
                   generated, interrupted, probe, monitor>>

\* the element loop after the recursion: go_back, sleep, next element
GoBack(result) ==
    /\ phase = "exploring"
    /\ Top.pc = "back"
    /\ calls' = Append(calls, Call("back", Top.depth, <<>>, result, None))
    /\ now' = now + (IF result = "error" THEN 0 ELSE BackSeconds)
                  + AfterBackSeconds
    /\ stack' = SetTop([Top EXCEPT !.pc = "loop", !.i = Top.i + 1])
    /\ UNCHANGED <<phase, max_depth, visited_elements, screen_states,
                   discovered_flows, generated, interrupted, probe, monitor>>

\* the element loop is exhausted: explore_screen returns
LoopDone ==
    /\ phase = "exploring"
    /\ Top.pc = "loop"
    /\ Top.i > Len(Top.clickable)
    /\ Return
    /\ UNCHANGED <<max_depth, visited_elements, screen_states,
                   discovered_flows, now, calls, generated, interrupted, probe,
                   monitor>>

\* a plausible slip: the KeyboardInterrupt is not caught, run_exploration
\* ends without its summary
InterruptUncaught ==
    /\ phase = "exploring"
    /\ stack' = <<>>
    /\ phase' = "done"
    /\ interrupted' = TRUE
    /\ UNCHANGED <<max_depth, visited_elements, screen_states,
                   discovered_flows, now, calls, generated, probe, monitor>>

\* where a KeyboardInterrupt can fall inside one pass of the element loop:
\* while tap_element waits for its flow run, or in the sleep after a tap
\* that returned True
InterruptPoints == {"tap_element", "sleep"}

\* KeyboardInterrupt inside the element loop, after visited_elements.add and
\* before the flow is recorded; `except Exception` in tap_element does not
\* catch it
InterruptInLoop(point) ==
    /\ phase = "exploring"
    /\ Top.pc = "loop"
    /\ Top.i <= Len(Top.clickable)
    /\ LET element == Top.clickable[Top.i]
           identifier == element.identifier
           result == IF point = "sleep" THEN "ok" ELSE "interrupted"
       IN  /\ Unvisited(identifier)
           /\ "ok" \in TapResults(element)
           /\ visited_elements' = visited_elements \cup {identifier}
           /\ calls' = Append(calls, Call("tap", Top.depth, identifier, result, None))
    /\ stack' = <<>>
    /\ phase' = "summary"
    /\ interrupted' = TRUE
    /\ UNCHANGED <<max_depth, screen_states, discovered_flows, now, generated,
                   probe, monitor>>

\* KeyboardInterrupt while explore_screen runs, caught in run_exploration
Interrupt ==
    /\ phase = "exploring"
    /\ stack' = <<>>
    /\ phase' = "summary"
    /\ interrupted' = TRUE
    /\ UNCHANGED <<max_depth, visited_elements, screen_states,
                   discovered_flows, now, calls, generated, probe, monitor>>

\* run_exploration after explore_screen: the summary and generate_test_files
Summary ==
    /\ phase = "summary"
    /\ generated' = Append(generated, generate_test_files(now))
    /\ phase' = "done"
    /\ UNCHANGED <<max_depth, stack, visited_elements, screen_states,
                   discovered_flows, now, calls, interrupted, probe, monitor>>

\* a plausible slip: the flow log is drained while it is written out
GenerateTestFilesDrains(delay) ==
    /\ phase = "done"
    /\ phase' = "regenerated"
    /\ now' = now + delay
    /\ generated' = Append(generated, generate_test_files(now + delay))
    /\ discovered_flows' = <<>>
    /\ UNCHANGED <<max_depth, stack, visited_elements, screen_states, calls,
                   interrupted, probe, monitor>>

\* generate_test_files called once more on the finished explorer, delay
\* seconds after the run's own call
GenerateTestFiles(delay) ==
    /\ phase = "done"
    /\ phase' = "regenerated"
    /\ now' = now + delay
    /\ generated' = Append(generated, generate_test_files(now + delay))
    /\ UNCHANGED <<max_depth, stack, visited_elements, screen_states,
                   discovered_flows, calls, interrupted, probe, monitor>>

Next ==
    \/ \E k \in MaxDepths : RunExploration(k)
    \/ ExploreTooDeep
    \/ HierarchyFails
    \/ \E hierarchy \in Hierarchies : ObserveScreen(hierarchy)
    \/ SkipVisited
    \/ \E result \in {"none", "failed"} : TapFails(result)
    \/ TapSucceeds
    \/ \E result \in BackResults : GoBack(result)
    \/ LoopDone
    \/ Interrupt
    \/ \E point \in InterruptPoints : InterruptInLoop(point)
    \/ Summary
    \/ \E delay \in 0..MaxDelay : GenerateTestFiles(delay)

Spec == Init /\ [][Next]_vars

\* the steps run_exploration takes by itself once it is called: every
\* statement of explore_screen and the summary, each backend call returning
Proceed ==
    \/ ExploreTooDeep
    \/ HierarchyFails
    \/ \E hierarchy \in Hierarchies : ObserveScreen(hierarchy)
    \/ SkipVisited
    \/ \E result \in {"none", "failed"} : TapFails(result)
    \/ TapSucceeds
    \/ \E result \in BackResults : GoBack(result)
    \/ LoopDone
    \/ Summary

\* one call of run_exploration from its start to its return, interrupted or
\* not
RunNext ==
    \/ \E k \in MaxDepths : RunExploration(k)
    \/ Proceed
    \/ Interrupt
    \/ \E point \in InterruptPoints : InterruptInLoop(point)

\* the interpreter keeps executing run_exploration: a step of it that can be
\* taken is taken; the caller and the interrupts are under no such obligation
FairSpec == Init /\ [][RunNext]_vars /\ WF_vars(Proceed)

(***************************************************************************)
(* run_exploration called a second time on the same UIExplorer.            *)
(***************************************************************************)
\* the max_depth values tried for the two calls
RerunDepths == {-1, 0}

\* run_exploration(max_depth=k) called again after the first call returned:
\* nothing but __init__ assigns visited_elements, screen_states and
\* discovered_flows, so the second call starts on what the first one left
RunExplorationAgain(k) ==
    /\ phase = "done"
    /\ Len(generated) = 1
    /\ phase' = "exploring"
    /\ max_depth' = k
    /\ stack' = <<Frame(0)>>
    /\ UNCHANGED <<visited_elements, screen_states, discovered_flows, now,
                   calls, generated, interrupted, probe, monitor>>

RerunNext ==
    \/ \E k \in RerunDepths : RunExploration(k)
    \/ \E k \in RerunDepths : RunExplorationAgain(k)
    \/ Proceed

SpecRerun == Init /\ [][RerunNext]_vars

(***************************************************************************)
(* Direct calls of _create_identifier on two elements.                     *)
(***************************************************************************)
\* the displayText values tried: every string of 'a' and ' ' up to MaxTextLen
ProbeTexts == SeqUpTo({"a", " "}, MaxTextLen)

\* the element dicts tried
ProbeElements ==
    { [text |-> t, accessibilityText |-> a, resource_id |-> r, bounds |-> b,
       class |-> d[1], path |-> d[2]] :
        t \in ProbeTexts,
        a \in {<<>>, <<" ">>, <<"b">>},
        r \in {<<>>, <<" ">>, <<"r">>},
        b \in {<<>>, <<"[0,0]">>},
        d \in {<<<<"View">>, <<>>>>, <<<<"Button">>, <<"/child[", "0", "]">>>>} }

InitIdentify ==
    /\ phase = "idle"
    /\ max_depth = 0
    /\ stack = <<>>
    /\ visited_elements = {}
    /\ screen_states = <<>>
    /\ discovered_flows = <<>>
    /\ now = 0
    /\ calls = <<>>
    /\ generated = <<>>
    /\ interrupted = FALSE
    /\ probe \in [stage : {"input"}, e1 : ProbeElements, e2 : ProbeElements,
                  id1 : {<<>>}, id2 : {<<>>}]
    /\ monitor = NoMonitor

\* _create_identifier(e1) and _create_identifier(e2)
Identify ==
    /\ probe.stage = "input"
    /\ probe' = [probe EXCEPT !.stage = "identified",
                              !.id1 = create_identifier(probe.e1),
                              !.id2 = create_identifier(probe.e2)]
    /\ UNCHANGED <<phase, max_depth, stack, visited_elements, screen_states,
                   discovered_flows, now, calls, generated, interrupted,
                   monitor>>

SpecIdentify == InitIdentify /\ [][Identify]_vars

(***************************************************************************)
(* Direct calls of find_clickable_elements on a snapshot.                  *)
(***************************************************************************)
\* the largest number of children of the root node of a snapshot tried
MaxChildren == 2

\* a node that is neither a dict nor a list (a string, a number)
Scalar == [kind |-> "scalar", attributes |-> NoAttrs, children |-> <<>>]

\* the attribute maps tried: clickable "true" with a text or with a resource
\* id, clickable "false", clickable "True", and no attributes at all
ParseAttrs ==
    { Attr(True, <<"a">>, <<>>, <<>>, <<"[0,0]">>),
      Attr(True, <<>>, <<>>, <<"r">>, <<"[1,1]">>),
      Attr(False, <<"a">>, <<>>, <<>>, <<"[2,2]">>),
      Attr(<<"T", "r", "u", "e">>, <<"a">>, <<>>, <<>>, <<"[3,3]">>),
      NoAttrs }

\* the snapshots tried: a dict or list root over up to MaxChildren nodes,
\* each a leaf or a dict or list node over one leaf
ParseLeaves == {DictNode(attrs, <<>>) : attrs \in ParseAttrs} \cup {Scalar}
ParseInner ==
    {DictNode(attrs, <<leaf>>) :
        attrs \in {Attr(True, <<"a">>, <<>>, <<>>, <<"[0,0]">>), NoAttrs},
        leaf \in ParseLeaves}
    \cup {ListNode(<<leaf>>) : leaf \in ParseLeaves}
ParseSnapshots ==
    LET below == SeqUpTo(ParseLeaves \cup ParseInner, MaxChildren)
    IN  {DictNode(attrs, children) :
            attrs \in {Attr(True, <<>>, <<>>, <<"r">>, <<"[1,1]">>), NoAttrs},
            children \in below}
        \cup {ListNode(items) : items \in below}

\* the identifiers the self.visited_elements tried are made of
ParseIdentities == {TextPrefix \o <<"a">>, IdPrefix \o <<"r">>}

InitParse ==
    /\ phase = "idle"
    /\ max_depth = 0
    /\ stack = <<>>
    /\ visited_elements \in SUBSET ParseIdentities
    /\ screen_states = <<>>
    /\ discovered_flows = <<>>
    /\ now = 0
    /\ calls = <<>>
    /\ generated = <<>>
    /\ interrupted = FALSE
    /\ probe \in [stage : {"snapshot"}, hierarchy : ParseSnapshots,
                  clickable : {<<>>}]
    /\ monitor = NoMonitor

\* find_clickable_elements(hierarchy)
Parse ==
    /\ probe.stage = "snapshot"
    /\ probe' = [probe EXCEPT !.stage = "parsed",
                              !.clickable = find_clickable_elements(probe.hierarchy)]
    /\ UNCHANGED <<phase, max_depth, stack, visited_elements, screen_states,
                   discovered_flows, now, calls, generated, interrupted,
                   monitor>>

SpecParse == InitParse /\ [][Parse]_vars

(***************************************************************************)
(* run_monitored_test: main, a PerformanceMonitor and its sampling thread.  *)
(* Time passes in whole seconds, by Tick; a step that is due is taken       *)
(* before the next second.                                                  *)
(***************************************************************************)
\* the most samples the thread collects
MaxSamples == 2

\* timeout=3 of each adb subprocess.run in get_metrics
SubprocessTimeout == 3

\* the adb calls of one get_metrics: pidof, top, meminfo, battery
AdbCalls == 4

\* time.sleep(2) at the end of each round of monitor_loop
SampleSeconds == 2

\* self.thread.join(timeout=5)
JoinTimeout == 5

\* monitor = PerformanceMonitor(PACKAGE_NAME)
NewMonitor ==
    [main |-> "created", running |-> FALSE, metrics |-> <<>>,
     thread |-> "none", call |-> 0, left |-> 0, timed_out |-> FALSE,
     waited |-> 0, summary |-> <<>>]

InitMonitor ==
    /\ phase = "idle"
    /\ max_depth = 0
    /\ stack = <<>>
    /\ visited_elements = {}
    /\ screen_states = <<>>
    /\ discovered_flows = <<>>
    /\ now = 0
    /\ calls = <<>>
    /\ generated = <<>>
    /\ interrupted = FALSE
    /\ probe = ProbeIdle
    /\ monitor = NewMonitor

Explorer ==
    <<phase, max_depth, stack, visited_elements, screen_states,
      discovered_flows, now, calls, generated, interrupted, probe>>

\* one adb call that takes seconds; at SubprocessTimeout it is cut off and
\* raises TimeoutExpired
AdbCall(n, seconds) ==
    [monitor EXCEPT !.thread = "measuring", !.call = n, !.left = seconds,
                    !.timed_out = (seconds = SubprocessTimeout)]

\* the end of a round of monitor_loop: time.sleep(2)
Sleep(m) ==
    [m EXCEPT !.thread = "sleeping", !.call = 0, !.left = SampleSeconds,
              !.timed_out = FALSE]

\* monitor.start(): running = True and the thread is started
Start ==
    /\ monitor.main = "created"
    /\ monitor' = [monitor EXCEPT !.main = "started", !.running = TRUE,
                                  !.thread = "check"]
    /\ UNCHANGED Explorer

\* `while self.running:` read as True: get_metrics begins with adb pidof
LoopGoesOn(seconds) ==
    /\ monitor.thread = "check"
    /\ monitor.running
    /\ Len(monitor.metrics) < MaxSamples
    /\ monitor' = AdbCall(1, seconds)
    /\ UNCHANGED Explorer

\* `while self.running:` read as False: monitor_loop returns
LoopExits ==
    /\ monitor.thread = "check"
    /\ ~monitor.running
    /\ monitor' = [monitor EXCEPT !.thread = "exited"]
    /\ UNCHANGED Explorer

\* an adb call is cut off: `except Exception` makes get_metrics return None,
\* nothing is appended
CallTimesOut ==
    /\ monitor.thread = "measuring"
    /\ monitor.left = 0
    /\ monitor.timed_out
    /\ monitor' = Sleep(monitor)
    /\ UNCHANGED Explorer

\* pidof prints nothing: get_metrics returns None, nothing is appended
NoPid ==
    /\ monitor.thread = "measuring"
    /\ monitor.left = 0
    /\ ~monitor.timed_out
    /\ monitor.call = 1
    /\ monitor' = Sleep(monitor)
    /\ UNCHANGED Explorer

\* an adb call returns in time and get_metrics goes on to the next one
NextCall(seconds) ==
    /\ monitor.thread = "measuring"
    /\ monitor.left = 0
    /\ ~monitor.timed_out
    /\ monitor.call < AdbCalls
    /\ monitor' = AdbCall(monitor.call + 1, seconds)
    /\ UNCHANGED Explorer

\* the last adb call returns in time: get_metrics returns a sample and
\* monitor_loop appends it to self.metrics
Sample ==
    /\ monitor.thread = "measuring"
    /\ monitor.left = 0
    /\ ~monitor.timed_out
    /\ monitor.call = AdbCalls
    /\ monitor' = Sleep([monitor EXCEPT !.metrics = Append(@, "sample")])
    /\ UNCHANGED Explorer

\* time.sleep(2) is over: back to `while self.running:`
Wake ==
    /\ monitor.thread = "sleeping"
    /\ monitor.left = 0
    /\ monitor' = [monitor EXCEPT !.thread = "check"]
    /\ UNCHANGED Explorer

\* main's finally block calls stop() before start() ran (KeyboardInterrupt on
\* entry of the try block): running = False, and there is no thread to join
StopBeforeStart ==
    /\ monitor.main = "created"
    /\ monitor' = [monitor EXCEPT !.main = "stopped", !.running = FALSE]
    /\ UNCHANGED Explorer

\* monitor.stop() up to the join: running = False, at any moment of the test
Stop ==
    /\ monitor.main = "started"
    /\ monitor' = [monitor EXCEPT !.main = "joining", !.running = FALSE,
                                  !.waited = 0]
    /\ UNCHANGED Explorer

\* self.thread.join(timeout=5) returns: the thread has ended, or 5 seconds
\* have passed
JoinReturns ==
    /\ monitor.main = "joining"
    /\ monitor.thread = "exited" \/ monitor.waited = JoinTimeout
    /\ monitor' = [monitor EXCEPT !.main = "stopped"]
    /\ UNCHANGED Explorer

\* print(monitor.get_summary()): reads self.metrics
GetSummary ==
    /\ monitor.main = "stopped"
    /\ monitor' = [monitor EXCEPT !.main = "summarised",
                                  !.summary = <<Len(monitor.metrics)>>]
    /\ UNCHANGED Explorer

\* one second passes for the adb call or the sleep under way and for the
\* join under way, none of them being due
Tick ==
    /\ monitor.main \in {"started", "joining", "stopped", "summarised"}
    /\ monitor.thread \in {"measuring", "sleeping"}
    /\ monitor.left > 0
    /\ monitor.main = "joining" => monitor.waited < JoinTimeout
    /\ monitor' = [monitor EXCEPT
                      !.left = @ - 1,
                      !.waited = IF monitor.main = "joining" THEN @ + 1 ELSE @]
    /\ UNCHANGED Explorer

MonitorNext ==
    \/ Start
    \/ \E seconds \in 0..SubprocessTimeout : LoopGoesOn(seconds)
    \/ LoopExits
    \/ CallTimesOut
    \/ NoPid
    \/ \E seconds \in 0..SubprocessTimeout : NextCall(seconds)
    \/ Sample
    \/ Wake
    \/ StopBeforeStart
    \/ Stop
    \/ JoinReturns
    \/ GetSummary
    \/ Tick

SpecMonitor == InitMonitor /\ [][MonitorNext]_vars

(***************************************************************************)
(* Vocabulary of the properties.                                           *)
(***************************************************************************)
\* run_exploration is past explore_screen
Finished == phase \in {"summary", "done", "regenerated"}

CallsOf(op) == {i \in 1..Len(calls) : calls[i].op = op}
OkTaps == {i \in CallsOf("tap") : calls[i].result = "ok"}
FailedTaps == {i \in CallsOf("tap") : calls[i].result # "ok"}

\* the least element of a non-empty set of numbers
Least(S) == CHOOSE x \in S : \A y \in S : x <= y

\* a line of the script that is a step
IsStep(line) == line # <<>> /\ line[1] = "- "
Steps(lines) == SelectSeq(lines, IsStep)

\* the steps every script starts with
BootstrapSteps ==
    << <<"- ", "waitForAnimationToEnd">>,
       <<"- ", "takeScreenshot: \"exploration_start\"">> >>

\* the first snapshot call of the run and what it returned
RootCaptureFailed ==
    calls # <<>> /\ calls[1].op = "hierarchy" /\ calls[1].result = "failed"
RootCaptured ==
    calls # <<>> /\ calls[1].op = "hierarchy" /\ calls[1].result = "ok"

RECURSIVE HasClickable(_)
\* some dict node of the snapshot carries clickable = "true"
HasClickable(node) ==
    \/ node.kind = "dict" /\ node.attributes.clickable = True
    \/ \E i \in 1..Len(node.children) : HasClickable(node.children[i])

\* C1: no ElementIdentity is the action of more than one FlowRecord of
\* discovered_flows, in any reachable state of any run.
C1_OnceOnly ==
    \A i, j \in 1..Len(discovered_flows) :
        discovered_flows[i].action = discovered_flows[j].action => i = j

\* a finished run that recorded two flows and observed a screen showing one
\* identity twice, which was activated
C1_Witness ==
    /\ phase = "done"
    /\ Len(discovered_flows) >= 2
    /\ \E k \in 1..Len(screen_states) :
         LET elements == screen_states[k].elements
         IN  \E i, j \in 1..Len(elements) :
               /\ i # j
               /\ elements[i].identifier = elements[j].identifier
               /\ \E f \in 1..Len(discovered_flows) :
                     discovered_flows[f].action = elements[i].identifier

\* C2: in a run started with max_depth = k every ScreenState and every
\* FlowRecord has depth <= k, and an explore_screen activation entered with
\* depth > max_depth appends nothing and issues no backend call.
C2_DepthBound ==
    /\ [](/\ \A i \in 1..Len(screen_states) :
                screen_states[i].depth <= max_depth
          /\ \A i \in 1..Len(discovered_flows) :
                discovered_flows[i].depth <= max_depth)
    /\ [][(phase = "exploring" /\ Top.pc = "enter" /\ Top.depth > max_depth)
           => /\ screen_states' = screen_states
              /\ discovered_flows' = discovered_flows
              /\ visited_elements' = visited_elements
              /\ calls' = calls
              /\ Len(stack') < Len(stack)]_vars

\* a run at the largest depth that logged a screen and a flow at that depth
C2_Witness ==
    /\ max_depth = MaxMaxDepth
    /\ \E i \in 1..Len(screen_states) : screen_states[i].depth = max_depth
    /\ \E i \in 1..Len(discovered_flows) :
          discovered_flows[i].depth = max_depth

\* the calls after a successful tap's follow-up screenshot that are issued at
\* the tap's depth or above it
AfterDescent(i) == {j \in (i + 2)..Len(calls) : calls[j].depth <= calls[i].depth}

\* C3: in a run that is not cancelled every successful activation is followed
\* by exactly one back attempt, issued after the descent it triggered has
\* returned (at once when depth = max_depth) and before the next sibling is
\* activated; at the end of the run there are as many back attempts as
\* FlowRecords.
C3_Pairing ==
    /\ \A i \in OkTaps :
         LET d == calls[i].depth
             later == AfterDescent(i)
         IN  /\ i + 2 <= Len(calls) =>
                  IF d < max_depth
                  THEN calls[i + 2].op = "hierarchy" /\ calls[i + 2].depth = d + 1
                  ELSE calls[i + 2].op = "back" /\ calls[i + 2].depth = d
             /\ later # {} =>
                  LET j == Least(later)
                  IN  /\ calls[j].op = "back" /\ calls[j].depth = d
                      /\ later \ {j} # {} =>
                            LET n == Least(later \ {j})
                            IN  ~(calls[n].op = "back" /\ calls[n].depth = d)
             /\ (Finished /\ ~interrupted) => later # {}
    /\ ~interrupted =>
          Cardinality(CallsOf("back"))
          + Cardinality({f \in 1..Len(stack) : stack[f].pc = "back"})
          = Len(discovered_flows)
    /\ (Finished /\ ~interrupted) =>
          Cardinality(CallsOf("back")) = Len(discovered_flows)

\* an uncancelled finished run in which a tap at depth 0 led to a descent with
\* its own successful tap, and a sibling was tapped after the back
C3_Witness ==
    /\ Finished /\ ~interrupted
    /\ \E i \in OkTaps :
         /\ calls[i].depth = 0
         /\ \E m \in OkTaps : m > i /\ calls[m].depth = 1 /\ m < Least(AfterDescent(i))
         /\ \E n \in CallsOf("tap") :
               calls[n].depth = 0 /\ n > Least(AfterDescent(i))

\* the line of the script that carries the time of generation
IsGeneratedStamp(line) ==
    Len(line) >= 2 /\ line[1] = "# " /\ line[2] = "Generated: "

\* a script without its time of generation
Unstamped(lines) ==
    [i \in 1..Len(lines) |->
        IF IsGeneratedStamp(lines[i]) THEN <<"# ", "Generated: ">> ELSE lines[i]]

\* C4 as claimed: two generate_test_files calls on the same explorer state
\* write byte-identical script content and byte-identical report content.
C4_AsClaimed ==
    phase = "regenerated" =>
        /\ generated[1].test_content = generated[2].test_content
        /\ generated[1].report = generated[2].report

\* C4 as amended: the two scripts differ at most in the `# Generated:` line
\* and the two reports at most in `timestamp`, both of which carry the time
\* of the call; calls that read the same time write identical content.
C4_SameButForStamp ==
    phase = "regenerated" =>
        LET first == generated[1]
            second == generated[2]
        IN  /\ Len(first.test_content) = Len(second.test_content)
            /\ Unstamped(first.test_content) = Unstamped(second.test_content)
            /\ [first.report EXCEPT !.timestamp = 0]
               = [second.report EXCEPT !.timestamp = 0]
            /\ first.report.timestamp = second.report.timestamp
                  => first = second

\* generate_test_files was called twice, a second apart, on a log of two flows
C4_Witness ==
    /\ phase = "regenerated"
    /\ Len(discovered_flows) >= 2
    /\ generated[1].report.timestamp # generated[2].report.timestamp
    /\ generated[1].test_content # generated[2].test_content

\* s without its leading and trailing whitespace, stated without recursion:
\* the piece of s between a whitespace prefix and a whitespace suffix that
\* neither starts nor ends with whitespace
Trimmed(s) ==
    CHOOSE t \in {SubSeq(s, a, b) : a \in 1..(Len(s) + 1), b \in 0..Len(s)} :
        \E a \in 1..(Len(s) + 1), b \in 0..Len(s) :
            /\ t = SubSeq(s, a, b)
            /\ \A k \in 1..(a - 1) : s[k] \in Whitespace
            /\ \A k \in (b + 1)..Len(s) : s[k] \in Whitespace
            /\ t # <<>> => t[1] \notin Whitespace /\ t[Len(t)] \notin Whitespace
            /\ t = <<>> => a = Len(s) + 1 /\ b = Len(s)

\* the identity the priority rule gives when labels are used as they are
IdentityOfRaw(e) ==
    IF e.text # <<>> THEN <<"t", "e", "x", "t", ":">> \o e.text
    ELSE IF e.accessibilityText # <<>>
         THEN <<"a", "c", "c", ":">> \o e.accessibilityText
    ELSE IF e.resource_id # <<>> THEN <<"i", "d", ":">> \o e.resource_id
    ELSE <<"b", "o", "u", "n", "d", "s", ":">> \o e.bounds

\* the identity the priority rule gives when labels are trimmed first
IdentityOfTrimmed(e) ==
    IdentityOfRaw([e EXCEPT !.text = Trimmed(e.text),
                            !.accessibilityText = Trimmed(e.accessibilityText),
                            !.resource_id = Trimmed(e.resource_id)])

C6_AsClaimed ==
    (/\ probe.stage = "identified"
     /\ probe.e1.text = probe.e2.text
     /\ probe.e1.text # <<>>)
        => probe.id1 = probe.id2

\* C6 as amended: two elements with the same displayText that is not empty
\* and not whitespace only get the same identity, whatever their other
\* fields are.
C6_SameTextSameIdentity ==
    (/\ probe.stage = "identified"
     /\ probe.e1.text = probe.e2.text
     /\ \E k \in 1..Len(probe.e1.text) : probe.e1.text[k] \notin Whitespace)
        => probe.id1 = probe.id2

\* identified: the same text on two elements that differ in every other field
C6_Witness ==
    /\ probe.stage = "identified"
    /\ probe.e1.text = probe.e2.text
    /\ probe.e1.text = <<"a", " ">>
    /\ probe.e1.accessibilityText # probe.e2.accessibilityText
    /\ probe.e1.resource_id # probe.e2.resource_id
    /\ probe.e1.bounds # probe.e2.bounds
    /\ probe.e1.class # probe.e2.class
    /\ probe.e1.path # probe.e2.path
    /\ probe.id1 = probe.id2

\* the identifiers of the elements a ScreenState lists
IdentifiersOf(screen_state) ==
    {screen_state.elements[i].identifier : i \in 1..Len(screen_state.elements)}

\* the identifiers whose taps worked, in the order of the taps
RECURSIVE TappedOk(_)
TappedOk(log) ==
    IF log = <<>> THEN <<>>
    ELSE LET rest == TappedOk(SubSeq(log, 1, Len(log) - 1))
             last == log[Len(log)]
         IN  IF last.op = "tap" /\ last.result = "ok"
             THEN Append(rest, last.what) ELSE rest

\* C7: an element whose activation fails (a timeout included) keeps its identity in the Frontier,
\* gets no FlowRecord, no descent and no back, and the loop goes on with the
\* next element; so a run over a single screen ends with every identity of
\* the screen in the Frontier and one FlowRecord per successful activation,
\* which is the report's total_interactions.
C7_FailedActivation ==
    /\ \A i \in FailedTaps :
         /\ calls[i].what \in visited_elements
         /\ \A f \in 1..Len(discovered_flows) :
               discovered_flows[f].action # calls[i].what
         /\ i < Len(calls) =>
               \/ calls[i + 1].op = "tap" /\ calls[i + 1].depth = calls[i].depth
               \/ calls[i + 1].op = "back" /\ calls[i + 1].depth = calls[i].depth - 1
    /\ (Finished /\ ~interrupted /\ Len(screen_states) = 1) =>
          /\ visited_elements = IdentifiersOf(screen_states[1])
          /\ Len(discovered_flows) = Cardinality(OkTaps)
          /\ [f \in 1..Len(discovered_flows) |-> discovered_flows[f].action]
             = TappedOk(calls)
          /\ \A g \in 1..Len(generated) :
                generated[g].report.total_interactions = Cardinality(OkTaps)

\* one screen with three elements, the second activation failed: a Frontier
\* of three, FlowRecords for the first and the third, an interaction count of 2
C7_Witness ==
    /\ phase = "done" /\ ~interrupted
    /\ Len(screen_states) = 1
    /\ Len(screen_states[1].elements) = 3
    /\ Cardinality(visited_elements) = 3
    /\ Len(calls) >= 7
    /\ calls[3].op = "tap" /\ calls[3].result = "ok"
    /\ calls[6].op = "tap" /\ calls[6].result = "failed"
    /\ calls[7].op = "tap" /\ calls[7].result = "ok"
    /\ Len(discovered_flows) = 2
    /\ discovered_flows[1].action = screen_states[1].elements[1].identifier
    /\ discovered_flows[2].action = screen_states[1].elements[3].identifier
    /\ generated[1].report.total_interactions = 2

\* C8: with max_depth = 0 a successful activation on the start screen still
\* appends a FlowRecord of depth 0 and is followed by a back attempt, while
\* explore_screen is never entered recursively: once the start screen is
\* captured, one snapshot has been taken and screen_states holds one
\* ScreenState, of depth 0, for the whole run.
C8_DepthZero ==
    max_depth = 0 =>
        /\ Len(stack) <= 1
        /\ Cardinality(CallsOf("hierarchy")) <= 1
        /\ Len(screen_states) <= 1
        /\ \A i \in 1..Len(screen_states) : screen_states[i].depth = 0
        /\ Len(discovered_flows) <= Cardinality(OkTaps)
        /\ ~interrupted => Len(discovered_flows) = Cardinality(OkTaps)
        /\ \A f \in 1..Len(discovered_flows) : discovered_flows[f].depth = 0
        /\ RootCaptured =>
              Cardinality(CallsOf("hierarchy")) = 1 /\ Len(screen_states) = 1
        /\ discovered_flows # <<>> => RootCaptured
        /\ \A i \in OkTaps :
              /\ i + 2 <= Len(calls) => calls[i + 2].op = "back"
              /\ (Finished /\ ~interrupted) => i + 2 <= Len(calls)

\* a finished run with max_depth = 0 that recorded two flows
C8_Witness ==
    /\ max_depth = 0
    /\ phase = "done" /\ ~interrupted
    /\ Len(discovered_flows) = 2
    /\ Cardinality(CallsOf("back")) = 2
    /\ Len(screen_states) = 1

\* C9: when snapshot capture fails at the root screen the run ends with no
\* ScreenState, no FlowRecord and an empty Frontier, nothing is activated and
\* no back is issued, the script holds only the bootstrap steps, and
\* run_exploration goes on to its summary instead of raising.
C9_RootCaptureFails ==
    RootCaptureFailed =>
        /\ Len(calls) = 1
        /\ screen_states = <<>>
        /\ discovered_flows = <<>>
        /\ visited_elements = {}
        /\ stack = <<>>
        /\ Finished
        /\ ~interrupted
        /\ phase # "summary" => generated # <<>>
        /\ \A g \in 1..Len(generated) :
              /\ Steps(generated[g].test_content) = BootstrapSteps
              /\ generated[g].report.total_screens = 0
              /\ generated[g].report.total_interactions = 0

\* the root capture failed and run_exploration has written its files
C9_Witness ==
    /\ RootCaptureFailed
    /\ phase = "done"
    /\ Len(generated) = 1
    /\ max_depth = MaxMaxDepth

\* C10: when the start screen's snapshot is captured and holds no clickable
\* element, nothing is activated and no back is issued, the Frontier and the
\* flow log stay empty, one ScreenState is logged, the script holds only the
\* bootstrap steps and the report shows total_screens = 1 and
\* total_interactions = 0.
C10_EmptyScreen ==
    (RootCaptured /\ ~HasClickable(calls[1].snapshot)) =>
        /\ CallsOf("tap") = {} /\ CallsOf("back") = {}
        /\ Cardinality(CallsOf("hierarchy")) = 1
        /\ visited_elements = {}
        /\ discovered_flows = <<>>
        /\ Len(screen_states) = 1
        /\ screen_states[1].elements = <<>>
        /\ Len(stack) <= 1
        /\ \A g \in 1..Len(generated) :
              /\ Steps(generated[g].test_content) = BootstrapSteps
              /\ generated[g].report.total_screens = 1
              /\ generated[g].report.total_interactions = 0

\* a start screen without clickable elements, explored to the end of the run
C10_Witness ==
    /\ RootCaptured
    /\ ~HasClickable(calls[1].snapshot)
    /\ phase = "done" /\ ~interrupted
    /\ max_depth = MaxMaxDepth
    /\ Len(generated) = 1

\* what the generate_test_files call g wrote is what a call over the present
\* Frontier, ScreenState log and flow log, made at the same time, writes
OverPresentLogs(g) == generated[g] = generate_test_files(generated[g].report.timestamp)

\* C11: a KeyboardInterrupt at any point while explore_screen runs, at any
\* depth, ends the exploration: every activation is dropped, no further
\* backend call is made and the logs stay as they are; run_exploration goes
\* on to its summary and generate_test_files is invoked exactly once by the
\* run, over exactly the Frontier, ScreenState log and flow log accumulated
\* up to the interrupt.
C11_InterruptStillGenerates ==
    /\ [][(interrupted' /\ ~interrupted)
            => /\ phase = "exploring" /\ phase' = "summary"
               /\ stack' = <<>>
               /\ generated' = generated /\ generated = <<>>]_vars
    /\ [][interrupted
            => /\ visited_elements' = visited_elements
               /\ screen_states' = screen_states
               /\ discovered_flows' = discovered_flows
               /\ calls' = calls
               /\ stack' = <<>>
               /\ interrupted']_vars
    /\ []((interrupted /\ phase = "summary") => ENABLED Summary)
    /\ []((interrupted /\ phase = "done")
            => /\ Len(generated) = 1
               /\ OverPresentLogs(1)
               /\ generated[1].report.timestamp = now
               /\ generated[1].report.visited_elements = list(visited_elements)
               /\ generated[1].report.flows = discovered_flows
               /\ generated[1].report.total_screens = Len(screen_states))

\* a run interrupted inside a descent, in the sleep after a successful tap:
\* the files are written over a Frontier that holds one identity more than
\* the flow log has records
C11_Witness ==
    /\ interrupted
    /\ phase = "done"
    /\ Len(generated) = 1
    /\ calls # <<>>
    /\ calls[Len(calls)].op = "tap"
    /\ calls[Len(calls)].result = "ok"
    /\ calls[Len(calls)].depth >= 1
    /\ discovered_flows # <<>>
    /\ Cardinality(visited_elements) > Len(discovered_flows)
    /\ Len(generated[1].report.visited_elements) = Cardinality(visited_elements)

\* the backend calls that did not succeed
FailedCalls == {i \in 1..Len(calls) : calls[i].result \in {"failed", "error", "none"}}

\* every element of every logged screen went through the element loop
Explored ==
    \A k \in 1..Len(screen_states) :
        IdentifiersOf(screen_states[k]) \subseteq visited_elements

\* C12: no failure of a backend call (snapshot, activation, back), in any
\* combination and at any depth, aborts the run: a failing step unwinds at
\* most the explore_screen activation it happens in, only the return of the
\* root activation or an interrupt ends the exploration, a run that was not
\* interrupted ends with every listed element gone through, and whenever a
\* call has failed run_exploration still reaches generate_test_files, once.
C12_FailuresDoNotAbort ==
    /\ [][(phase = "exploring" /\ ~interrupted')
            => /\ Len(stack') >= Len(stack) - 1
               /\ phase' # "exploring" => (phase' = "summary" /\ Len(stack) = 1)]_vars
    /\ []((Finished /\ ~interrupted) => Explored)
    /\ [](phase = "done" => Len(generated) = 1)
    /\ (phase = "exploring" /\ FailedCalls # {}) ~> (phase = "done")

\* an uninterrupted run in which a snapshot inside a descent, an activation
\* and a back all failed, and which wrote its files
C12_Witness ==
    /\ phase = "done" /\ ~interrupted
    /\ Len(generated) = 1
    /\ \E i \in FailedCalls : calls[i].op = "hierarchy" /\ calls[i].depth >= 1
    /\ \E i \in FailedCalls : calls[i].op = "tap"
    /\ \E i \in FailedCalls : calls[i].op = "back"
    /\ Len(screen_states) >= 1

\* the explore_screen(0, max_depth) call of run_exploration has returned or
\* was unwound
Returned == Finished /\ stack = <<>>

\* C13: whatever max_depth >= 0 (and below it), whatever snapshots the
\* backend returns among screens of finitely many clickable elements and
\* whatever the outcomes of activations and backs, the explore_screen(0,
\* max_depth) call of run_exploration eventually returns, provided each
\* backend call returns; while it runs a step of it can always be taken.
C13_Terminates ==
    /\ (phase = "exploring") ~> Returned
    /\ [](phase = "exploring" => ENABLED Proceed)

\* explore_screen returned by itself from a run at the largest max_depth
\* that went through nested screens down to that depth, observed more
\* screens than it activated elements and met a failed back
C13_Witness ==
    /\ Returned /\ ~interrupted
    /\ max_depth = MaxMaxDepth
    /\ \E k \in 1..Len(screen_states) : screen_states[k].depth = MaxMaxDepth
    /\ \E i \in CallsOf("back") : calls[i].result = "error"
    /\ Cardinality(CallsOf("hierarchy")) > Cardinality(visited_elements)

\* the line that opens the steps of one flow record in the script
TestLine(flow) == <<"# ", "Test: ">> \o flow.action

\* where the script opens the steps of a flow record
TestLinesOf(lines, flow) == {k \in 1..Len(lines) : lines[k] = TestLine(flow)}

\* the lines of the script after line k, up to the next empty line
BlockAfter(lines, k) ==
    LET ends == {j \in (k + 1)..Len(lines) : lines[j] = <<>>}
    IN  SubSeq(lines, k + 1, IF ends = {} THEN Len(lines) ELSE Least(ends) - 1)

\* the steps that replay one flow record: the activation tap_element issued
\* for the element, a wait, the screenshot named to_screen, a back, a wait
ReplayBlock(flow) ==
    yaml_cmd(flow.element)
    \o << <<"- ", "waitForAnimationToEnd">>,
          <<"- ", "takeScreenshot: \"">> \o flow.to_screen \o <<"\"">>,
          <<"- ", "back">>,
          <<"- ", "waitForAnimationToEnd">> >>

\* C14: for every FlowRecord the generated script holds, in this order,
\* exactly one activation step, a wait, a screenshot step naming to_screen, a
\* back step and a wait, and the activation step is the one tap_element
\* issued for the element (text, else accessibility label, else resource id,
\* else a tap at the centre point).
C14_AsClaimed ==
    \A g \in 1..Len(generated) :
        LET lines == generated[g].test_content
            flows == generated[g].report.flows
        IN  \A f \in 1..Len(flows) :
              /\ Cardinality(TestLinesOf(lines, flows[f])) = 1
              /\ \A k \in TestLinesOf(lines, flows[f]) :
                    BlockAfter(lines, k) = ReplayBlock(flows[f])

\* what the latest generate_test_files call wrote
LastWritten == generated[Len(generated)]

\* the line that opens the section of an origin screen in the script
ScreenLine(screen) == <<"# ", "Screen: ">> \o screen

IsTestLine(line) == Len(line) >= 2 /\ line[1] = "# " /\ line[2] = "Test: "
IsScreenLine(line) == Len(line) >= 2 /\ line[1] = "# " /\ line[2] = "Screen: "

\* the first record of the flow log that starts from the screen
FirstFrom(flows, screen) ==
    Least({i \in 1..Len(flows) : flows[i].from_screen = screen})

\* C15: the script holds each FlowRecord exactly once; the records with the
\* same from_screen form one contiguous section under one heading; the
\* sections stand in the order in which their from_screen first occurs in
\* the flow log, and inside a section the records keep flow-log order.
\* (Read off the `# Screen:` and `# Test:` lines of the script, in their
\* order, each time generate_test_files has written one.)
C15_Sections ==
    generated # <<>> =>
        LET flows == LastWritten.report.flows
            lines == SelectSeq(LastWritten.test_content,
                               LAMBDA line : IsTestLine(line) \/ IsScreenLine(line))
            Pos(f) == Least(TestLinesOf(lines, flows[f]))
            Origins == {flows[f].from_screen : f \in 1..Len(flows)}
            Heading(screen) == {k \in 1..Len(lines) : lines[k] = ScreenLine(screen)}
        IN  /\ \A f \in 1..Len(flows) :
                  Cardinality(TestLinesOf(lines, flows[f])) = 1
            /\ Cardinality({k \in 1..Len(lines) : IsTestLine(lines[k])}) = Len(flows)
            /\ \A a, b \in 1..Len(flows) :
                  a # b =>
                    (Pos(a) < Pos(b)
                       <=> \/ FirstFrom(flows, flows[a].from_screen)
                              < FirstFrom(flows, flows[b].from_screen)
                           \/ /\ flows[a].from_screen = flows[b].from_screen
                              /\ a < b)
            /\ Cardinality({k \in 1..Len(lines) : IsScreenLine(lines[k])})
               = Cardinality(Origins)
            /\ \A screen \in Origins :
                  /\ Cardinality(Heading(screen)) = 1
                  /\ \A k \in Heading(screen) : \A f \in 1..Len(flows) :
                        k < Pos(f) <=> FirstFrom(flows, flows[f].from_screen)
                                       >= FirstFrom(flows, screen)

\* a finished run whose flow log goes from the start screen to a deeper
\* screen and back to the start screen, so that the script's order differs
\* from the order of the log
C15_Witness ==
    /\ phase = "done"
    /\ \E a, b, c \in 1..Len(discovered_flows) :
          /\ a < b /\ b < c
          /\ discovered_flows[a].from_screen = discovered_flows[c].from_screen
          /\ discovered_flows[a].from_screen # discovered_flows[b].from_screen
    /\ generated[1].report.flows = discovered_flows

\* the greatest element of a non-empty set of numbers
Greatest(S) == CHOOSE x \in S : \A y \in S : x >= y

IsTapStep(line) ==
    Len(line) >= 2 /\ line[1] = "- " /\ line[2] \in {"tapOn: \"", "tapOn:"}

\* A screen of the replayed application is named by the activations that
\* lead to it from the start screen: an activation opens the screen one
\* level down, a back returns to the screen it was opened from.
RECURSIVE OriginPath(_, _)
\* the screen on which record f of the flow log was activated: the start
\* screen at depth 0, else the screen opened by the record whose descent
\* recorded f
OriginPath(flows, f) ==
    IF flows[f].depth = 0 THEN <<>>
    ELSE LET parent == Greatest({p \in 1..(f - 1) :
                                   flows[p].depth = flows[f].depth - 1})
         IN  Append(OriginPath(flows, parent), flows[parent].action)

RECURSIVE ReplayTaps(_, _, _, _)
\* the activation steps met when the lines of a script are run from line k
\* with the application on the screen `path`, each with the screen it is run
\* on and the record (named in the last `# Test:` line) it belongs to
ReplayTaps(lines, k, path, current) ==
    IF k > Len(lines) THEN {}
    ELSE LET line == lines[k]
         IN  IF IsTestLine(line)
             THEN ReplayTaps(lines, k + 1, path, SubSeq(line, 3, Len(line)))
             ELSE IF IsTapStep(line)
             THEN {[action |-> current, on |-> path]}
                  \cup ReplayTaps(lines, k + 1, Append(path, current), current)
             ELSE IF line = <<"- ", "back">>
             THEN ReplayTaps(lines, k + 1,
                             SubSeq(path, 1, Len(path) - 1), current)
             ELSE ReplayTaps(lines, k + 1, path, current)

\* C16: when the generated script is replayed from the start screen against
\* the same application, in which each back undoes the preceding tap, every
\* activation step of the script runs while the application is on the
\* from_screen of its FlowRecord, for records of depth >= 1 as well.
C16_AsClaimed ==
    \A g \in 1..Len(generated) :
        LET lines == generated[g].test_content
            flows == generated[g].report.flows
        IN  \A tap \in ReplayTaps(lines, 1, <<>>, <<>>) :
              \E f \in 1..Len(flows) :
                 /\ flows[f].action = tap.action
                 /\ OriginPath(flows, f) = tap.on

\* the members of a sequence
Range(s) == {s[i] : i \in 1..Len(s)}

\* C17: in the report generate_test_files has just written total_screens is
\* the number of ScreenStates logged, total_interactions is the number of
\* FlowRecords logged, which is the number of distinct action identities in
\* the flow log, visited_elements lists the Frontier (the same identities,
\* each once) and flows is the whole flow log in order.
C17_ReportCounts ==
    generated # <<>> =>
        LET written == LastWritten.report
        IN  /\ written.total_screens = Len(screen_states)
            /\ written.total_interactions = Len(discovered_flows)
            /\ written.total_interactions
               = Cardinality({discovered_flows[f].action :
                                f \in 1..Len(discovered_flows)})
            /\ Range(written.visited_elements) = visited_elements
            /\ Len(written.visited_elements) = Cardinality(visited_elements)
            /\ written.flows = discovered_flows

\* the report of an uninterrupted run over more than one screen in which an
\* activation failed, so that the Frontier is larger than the flow log
C17_Witness ==
    /\ phase = "done" /\ ~interrupted
    /\ Len(screen_states) >= 2
    /\ Len(discovered_flows) >= 2
    /\ Cardinality(visited_elements) > Len(discovered_flows)
    /\ generated[1].report.total_screens = Len(screen_states)
    /\ generated[1].report.total_interactions = Len(discovered_flows)

RECURSIVE Positions(_)
\* the nodes of a snapshot, each named by the child indices leading to it
Positions(node) ==
    {<<>>} \cup UNION { {<<i>> \o q : q \in Positions(node.children[i])} :
                         i \in 1..Len(node.children) }

RECURSIVE NodeAt(_, _)
NodeAt(node, p) ==
    IF p = <<>> THEN node ELSE NodeAt(node.children[Head(p)], Tail(p))

\* pre-order: a node stands before the nodes below it, and the nodes below an
\* earlier child stand before the nodes below a later child
Before(p, q) ==
    \/ Len(p) < Len(q) /\ SubSeq(q, 1, Len(p)) = p
    \/ \E k \in 1..Len(p) :
          /\ k <= Len(q)
          /\ SubSeq(p, 1, k - 1) = SubSeq(q, 1, k - 1)
          /\ p[k] < q[k]

\* the dict nodes of the snapshot whose clickable is "true" and whose
\* identity is not in the Frontier
Candidates(hierarchy) ==
    {p \in Positions(hierarchy) :
        LET node == NodeAt(hierarchy, p)
        IN  /\ node.kind = "dict"
            /\ node.attributes.clickable = True
            /\ create_identifier(node.attributes) \notin visited_elements}

OkBacks == {i \in CallsOf("back") : calls[i].result = "ok"}
AppDepth == Cardinality(OkTaps) - Cardinality(OkBacks)

\* an explore_screen activation is about to look at the next element
AtLoopStart ==
    /\ phase = "exploring"
    /\ Top.pc = "loop"
    /\ Top.i <= Len(Top.clickable)

Attempted == {calls[i].what : i \in CallsOf("tap")}

\* C20: an identifier is added to visited_elements before tap_element is
\* called with its element, and tap_element is called only for an identifier
\* that is not in visited_elements when its loop iteration starts; so no
\* identifier is passed to tap_element twice in a run, also when a screen
\* shows it twice or a descent from an earlier sibling activated it, and the
\* number of tap_element calls always equals the size of visited_elements.
C20_MarkedBeforeTapped ==
    /\ [][\A i \in (Len(calls) + 1)..Len(calls') :
             calls'[i].op = "tap"
                => /\ calls'[i].what \notin visited_elements
                   /\ calls'[i].what \in visited_elements'
                   /\ calls'[i].what = Top.clickable[Top.i].identifier]_vars
    /\ [](\A i, j \in CallsOf("tap") : calls[i].what = calls[j].what => i = j)
    /\ [](Attempted = visited_elements)
    /\ [](Cardinality(CallsOf("tap")) = Cardinality(visited_elements))

\* an uninterrupted run of three tap_element calls in which the start screen
\* listed one identity twice, an element was activated inside a descent and
\* an element without any locator was passed to tap_element
C20_Witness ==
    /\ phase = "done" /\ ~interrupted
    /\ Cardinality(CallsOf("tap")) = 3
    /\ Cardinality(visited_elements) = 3
    /\ \E k \in 1..Len(screen_states) :
          /\ screen_states[k].depth = 0
          /\ Len(screen_states[k].elements)
             > Cardinality(IdentifiersOf(screen_states[k]))
    /\ \E i \in OkTaps : calls[i].depth = 1
    /\ \E i \in CallsOf("tap") : calls[i].result = "none"

\* the snapshot calls that failed inside a descent
FailedDescents ==
    {i \in CallsOf("hierarchy") : calls[i].result = "failed" /\ calls[i].depth > 0}

\* C21: when get_hierarchy fails in an explore_screen activation of depth
\* d > 0, that activation logs no ScreenState, takes no screenshot and taps
\* nothing; the activation of depth d - 1 then issues its one back for the
\* element that led there and goes on with its remaining elements.
C21_DescentCaptureFails ==
    /\ Len(screen_states)
       = Cardinality({i \in CallsOf("hierarchy") : calls[i].result = "ok"})
    /\ \A i \in FailedDescents :
         LET d == calls[i].depth
         IN  /\ i >= 3
             /\ calls[i - 2].op = "tap" /\ calls[i - 2].result = "ok"
             /\ calls[i - 2].depth = d - 1
             /\ i < Len(calls) =>
                   calls[i + 1].op = "back" /\ calls[i + 1].depth = d - 1
             /\ i + 1 < Len(calls) =>
                   \/ calls[i + 2].op = "tap" /\ calls[i + 2].depth = d - 1
                   \/ calls[i + 2].op = "back" /\ calls[i + 2].depth = d - 2
             /\ (Finished /\ ~interrupted) => i < Len(calls)
    /\ (Finished /\ ~interrupted /\ FailedDescents # {}) => Explored

\* an uninterrupted run in which the snapshot failed at depth 1, the back
\* followed and a later element of the start screen was tapped
C21_Witness ==
    /\ phase = "done" /\ ~interrupted
    /\ \E i \in FailedDescents :
          /\ calls[i].depth = 1
          /\ i + 2 <= Len(calls)
          /\ calls[i + 1].op = "back"
          /\ calls[i + 2].op = "tap" /\ calls[i + 2].depth = 0
    /\ Len(screen_states) = 1

\* the snapshot calls that returned a hierarchy, in the order of the
\* ScreenStates logged for them
Captures ==
    SelectSeq(calls, LAMBDA call : call.op = "hierarchy" /\ call.result = "ok")

\* the dict nodes of a snapshot whose clickable is "true"
Clickables(hierarchy) ==
    {p \in Positions(hierarchy) :
        LET node == NodeAt(hierarchy, p)
        IN  node.kind = "dict" /\ node.attributes.clickable = True}

\* C22: the elements of every ScreenState are all the clickable elements of
\* the snapshot it was logged for, in pre-order, those whose identity was in
\* the Frontier at that time included.
C22_AsClaimed ==
    \A k \in 1..Len(screen_states) :
        k <= Len(Captures) =>
            LET hierarchy == Captures[k].snapshot
                elements == screen_states[k].elements
                Rank(p) == 1 + Cardinality({q \in Clickables(hierarchy) : Before(q, p)})
            IN  /\ Len(elements) = Cardinality(Clickables(hierarchy))
                /\ \A p \in Clickables(hierarchy) :
                      LET attrs == NodeAt(hierarchy, p).attributes
                      IN  /\ elements[Rank(p)].text = attrs.text
                          /\ elements[Rank(p)].accessibilityText
                             = attrs.accessibilityText
                          /\ elements[Rank(p)].resource_id = attrs.resource_id
                          /\ elements[Rank(p)].bounds = attrs.bounds

\* s is the beginning of t
IsPrefix(s, t) == Len(s) <= Len(t) /\ SubSeq(t, 1, Len(s)) = s

\* C23: every step of a run (an activation that succeeds or fails, a failed
\* observation, a back, an interrupt, a generation) only grows the run
\* state: visited_elements after the step holds visited_elements before it,
\* and the ScreenState log and the flow log before the step are unchanged
\* beginnings of the logs after it.
C23_OnlyGrows ==
    [][/\ visited_elements \subseteq visited_elements'
       /\ IsPrefix(screen_states, screen_states')
       /\ IsPrefix(discovered_flows, discovered_flows')]_vars

\* an interrupted run that met a failed activation, a failed observation in
\* a descent and a failed back, and whose files were generated twice, with
\* every log non-empty
C23_Witness ==
    /\ phase = "regenerated"
    /\ interrupted
    /\ \E i \in CallsOf("tap") : calls[i].result = "failed"
    /\ FailedDescents # {}
    /\ \E i \in CallsOf("back") : calls[i].result = "error"
    /\ Len(discovered_flows) >= 2
    /\ Len(screen_states) >= 2
    /\ Cardinality(visited_elements) >= 3

\* run_exploration has just called explore_screen(0, max_depth)
AtRunStart ==
    /\ phase = "exploring"
    /\ Len(stack) = 1
    /\ Top.depth = 0 /\ Top.pc = "enter"

\* C24: at the start of every run_exploration call, a second call on the
\* same UIExplorer included, visited_elements, the ScreenState log and the
\* flow log are empty.
C24_AsClaimed ==
    AtRunStart =>
        /\ visited_elements = {}
        /\ screen_states = <<>>
        /\ discovered_flows = <<>>

\* the step the claimed priority order gives an element: its text label,
\* else its accessibility label, else its resource id, else a position tap
ClaimedStep(element) ==
    IF element.text # <<>>
    THEN <<<<"- ", "tapOn: \"">> \o element.text \o <<"\"">>>>
    ELSE IF element.accessibilityText # <<>>
    THEN <<<<"- ", "tapOn: \"">> \o element.accessibilityText \o <<"\"">>>>
    ELSE IF element.resource_id # <<>>
    THEN <<<<"- ", "tapOn:">>, <<"    id: ">> \o element.resource_id>>
    ELSE <<<<"- ", "tapOn:">>, <<"    point: \"50%,50%\"">>>>

\* C25: every tap_element call issues one activation (none returns without
\* one), and the step of an activated element is the one of the first
\* applicable locator in the order text label, accessibility label, resource
\* id, with the position tap whenever the three labels are empty.
C25_AsClaimed ==
    /\ \A i \in CallsOf("tap") : calls[i].result # "none"
    /\ \A k \in 1..Len(discovered_flows) :
          yaml_cmd(discovered_flows[k].element) =
              ClaimedStep(discovered_flows[k].element)

\* the backend calls a step adds to the log
NewCalls == SubSeq(calls', Len(calls) + 1, Len(calls'))

\* a step in which tap_element returns True
Activates ==
    \E n \in 1..Len(NewCalls) :
        NewCalls[n].op = "tap" /\ NewCalls[n].result = "ok"

\* a step that appends one FlowRecord for the element it activates: the
\* activation and the follow-up screenshot, taken SettleSeconds later, are
\* the step's only calls, so no capture of a deeper screen comes before the
\* append; the record names the element, and the screenshot reference and
\* depth of the ScreenState this activation of explore_screen logged
RecordsFlow ==
    /\ Len(discovered_flows') = Len(discovered_flows) + 1
    /\ IsPrefix(discovered_flows, discovered_flows')
    /\ screen_states' = screen_states
    /\ now' = now + SettleSeconds
    /\ LET flow == discovered_flows'[Len(discovered_flows')]
       IN  /\ Len(NewCalls) = 2
           /\ NewCalls[1].op = "tap" /\ NewCalls[1].result = "ok"
           /\ NewCalls[1].what = flow.action
           /\ NewCalls[1].depth = flow.depth
           /\ NewCalls[2].op = "screenshot"
           /\ NewCalls[2].what = flow.to_screen
           /\ flow.to_screen = AfterScreenshot(flow.action, now')
           /\ flow.action = flow.element.identifier
           /\ flow.element = Top.clickable[Top.i]
           /\ flow.depth = Top.depth
           /\ flow.from_screen = Top.screenshot_name
           /\ \E j \in 1..Len(screen_states) :
                 /\ screen_states[j].screenshot = flow.from_screen
                 /\ screen_states[j].depth = flow.depth
                 /\ screen_states[j].elements = Top.clickable
                 /\ screen_states[j].timestamp + SettleSeconds <= now'
                 /\ \A m \in (j + 1)..Len(screen_states) :
                       screen_states[m].depth > flow.depth

\* C26 as stated: one FlowRecord is appended per successful activation, after
\* the settle wait and the follow-up screenshot and before any descent; it
\* names the screenshot reference and depth of the ScreenState logged by the
\* same activation of explore_screen, which precedes it, and the identity of
\* the activated element.
C26_AsClaimed ==
    [][/\ Activates => RecordsFlow
       /\ discovered_flows' # discovered_flows => RecordsFlow]_vars

\* C26: one FlowRecord is appended per successful activation, after the
\* settle wait and the follow-up screenshot and before any descent, unless a
\* KeyboardInterrupt arrives between the activation's return and the append,
\* which leaves the activation without a record; every FlowRecord appended
\* names the screenshot reference and depth of the ScreenState logged by the
\* same activation of explore_screen, which precedes it, and the identity of
\* the activated element.
C26_UnlessInterrupted ==
    [][/\ Activates =>
             \/ RecordsFlow
             \/ /\ ~interrupted /\ interrupted'
                /\ discovered_flows' = discovered_flows
       /\ discovered_flows' # discovered_flows => RecordsFlow]_vars

\* a run that recorded a flow on the start screen, one on the screen below,
\* and then another on the start screen
C26_Witness ==
    /\ phase = "done" /\ ~interrupted
    /\ Len(discovered_flows) >= 3
    /\ discovered_flows[1].depth = 0
    /\ discovered_flows[2].depth = 1
    /\ discovered_flows[3].depth = 0
    /\ discovered_flows[3].from_screen = discovered_flows[1].from_screen
    /\ discovered_flows[2].from_screen # discovered_flows[1].from_screen

\* a step in which generate_test_files runs
Generates == Len(generated') = Len(generated) + 1

\* C27: generate_test_files leaves visited_elements, the ScreenState log and
\* the flow log as they are and calls no backend operation; what it writes
\* is read off them.
C27_PureProjection ==
    [][Generates =>
          /\ visited_elements' = visited_elements
          /\ screen_states' = screen_states
          /\ discovered_flows' = discovered_flows
          /\ calls' = calls
          /\ LET written == generated'[Len(generated')]
             IN  /\ written.report.flows = discovered_flows
                 /\ written.report.total_screens = Len(screen_states)
                 /\ Range(written.report.visited_elements) = visited_elements]_vars

\* generate_test_files has run twice over a Frontier and logs that are not
\* empty
C27_Witness ==
    /\ phase = "regenerated"
    /\ Len(generated) = 2
    /\ visited_elements # {}
    /\ Len(screen_states) >= 2
    /\ discovered_flows # <<>>
    /\ calls # <<>>

\* the activations that tap_element reported as failed
FailedActivations ==
    {i \in CallsOf("tap") : calls[i].result \in {"failed", "none"}}

\* the activations a KeyboardInterrupt cut off, inside tap_element or
\* between its return and the append of the flow
CutOffActivations ==
    {i \in CallsOf("tap") :
        interrupted /\ i = Len(calls) /\ calls[i].result \in {"ok", "interrupted"}}

\* every FlowRecord's action is in visited_elements and every report counts
\* no more interactions than visited elements
FlowsWithinFrontier ==
    /\ \A k \in 1..Len(discovered_flows) :
          discovered_flows[k].action \in visited_elements
    /\ Len(discovered_flows) <= Cardinality(visited_elements)
    /\ \A g \in 1..Len(generated) :
          generated[g].report.total_interactions
              <= Cardinality(Range(generated[g].report.visited_elements))

\* C28 as stated: every FlowRecord's action is in visited_elements, so there
\* are no more FlowRecords than visited elements (total_interactions <= the
\* number of visited_elements), with as many exactly when no attempted
\* activation has failed.
C28_AsClaimed ==
    /\ FlowsWithinFrontier
    /\ Len(discovered_flows) = Cardinality(visited_elements)
          <=> FailedActivations = {}

\* C28: every FlowRecord's action is in visited_elements, so there are no
\* more FlowRecords than visited elements (total_interactions <= the number
\* of visited_elements); the visited elements without a FlowRecord are the
\* failed activations and the one a KeyboardInterrupt cut off, so there are
\* as many exactly when no attempted activation has failed and none was cut
\* off.
C28_UnlessInterrupted ==
    /\ FlowsWithinFrontier
    /\ Cardinality(visited_elements) =
          Len(discovered_flows) + Cardinality(FailedActivations)
              + Cardinality(CutOffActivations)
    /\ Len(discovered_flows) = Cardinality(visited_elements)
          <=> FailedActivations = {} /\ CutOffActivations = {}

\* a finished run with two flows and a failed activation, so with fewer
\* flows than visited elements
C28_Witness ==
    /\ phase = "done" /\ ~interrupted
    /\ Len(discovered_flows) = 2
    /\ Cardinality(FailedActivations) = 1
    /\ Cardinality(visited_elements) = 3
    /\ generated[1].report.total_interactions = 2

\* the captures that logged ScreenState j: a snapshot followed by the
\* screenshot the ScreenState names
CapturesOf(j) ==
    {i \in CallsOf("hierarchy") :
        /\ calls[i].result = "ok"
        /\ calls[i].depth = screen_states[j].depth
        /\ calls[i + 1].what = screen_states[j].screenshot}

\* the flows whose activation led to ScreenState j: recorded one level up,
\* below max_depth, with the activation and its follow-up screenshot the two
\* calls right before the capture
TriggersOf(j) ==
    LET captures == CapturesOf(j)
    IN  {k \in 1..Len(discovered_flows) :
            /\ discovered_flows[k].depth = screen_states[j].depth - 1
            /\ discovered_flows[k].depth < max_depth
            /\ \E i \in captures :
                  /\ i > 2
                  /\ calls[i - 2].op = "tap" /\ calls[i - 2].result = "ok"
                  /\ calls[i - 2].what = discovered_flows[k].action
                  /\ calls[i - 1].op = "screenshot"
                  /\ calls[i - 1].what = discovered_flows[k].to_screen}

\* C29: every ScreenState of depth d > 0 was appended after one FlowRecord of
\* depth d - 1 whose activation led to the descent, no FlowRecord leads to
\* two ScreenStates, only the first ScreenState has depth 0, and so there
\* are at most 1 + the number of FlowRecords of depth < max_depth
\* ScreenStates.  (The deeper ScreenStates have one such flow each, and as
\* many flows between them as there are deeper ScreenStates.)
C29_DescentsFollowFlows ==
    LET deeper == {j \in 1..Len(screen_states) : screen_states[j].depth > 0}
        led == {<<j, TriggersOf(j)>> : j \in deeper}
    IN  /\ \A pair \in led : Cardinality(pair[2]) = 1
        /\ Cardinality(UNION {pair[2] : pair \in led}) = Cardinality(deeper)
        /\ \A j \in 1..Len(screen_states) : j \notin deeper => j = 1
        /\ Len(screen_states) <=
              1 + Cardinality({k \in 1..Len(discovered_flows) :
                                  discovered_flows[k].depth < max_depth})

\* a finished run with max_depth = 1 in which two flows of depth 0 led each
\* to a ScreenState of depth 1 and a flow of depth 1 led to none
C29_Witness ==
    /\ phase = "done"
    /\ max_depth = 1
    /\ Len(screen_states) = 3
    /\ screen_states[2].depth = 1 /\ screen_states[3].depth = 1
    /\ TriggersOf(2) # TriggersOf(3)
    /\ \E k \in 1..Len(discovered_flows) : discovered_flows[k].depth = 1

\* C30: once PerformanceMonitor.stop() has returned, the monitor thread
\* appends no further sample to metrics, so that get_summary reads a list no
\* other thread modifies, whatever the interleaving of the two threads and
\* however long a get_metrics call takes.
C30_AsClaimed ==
    [][monitor.main \in {"stopped", "summarised"}
          => monitor'.metrics = monitor.metrics]_vars

====
